---- MODULE Spec2Model ----
(***************************************************************************)
(* Model of the control loop of salians.py (class Salians, method run) and *)
(* of the gateway and selector functions it calls.                         *)
(*                                                                         *)
(* One action stands for one remote call (or one time.sleep call) of the   *)
(* loop together with the local code that follows it up to the next call.  *)
(* The remote service is the environment: each call receives a reply that  *)
(* is a transport/decoding failure ("fail"), a JSON body with an empty     *)
(* `response` envelope ("empty"), or a JSON body with a filled envelope    *)
(* ("full").                                                               *)
(*                                                                         *)
(* capture_progress is kept in whole percents (0..100) and weights are     *)
(* scaled by 100, so that the float arithmetic of weight() is exact.       *)
(***************************************************************************)
EXTENDS Integers, Sequences, FiniteSets, TLC

\* ------------------------------------------------------------------ bounds
MaxZones == 2

\* --------------------------------------------------------- program constants
MaxRetries == 6
RoundDuration == 20
RoundTimes == 6
RetryDuration == 10
RetryTimes == 1
BackoffDuration == 60
BackoffTimes == 1
NoPlanet == -1

\* Planet ids the service may report: 1 lies inside CPython's small-integer
\* cache, 300 lies outside of it.
PlanetIds == {1, 300}

\* Zones the service may report (position is given by the place in the list).
ZoneKinds ==
  { [difficulty |-> 1, captured |-> FALSE, capture_progress |-> 50],
    [difficulty |-> 4, captured |-> FALSE, capture_progress |-> 10],
    [difficulty |-> 3, captured |-> FALSE, capture_progress |-> 95],
    [difficulty |-> 2, captured |-> TRUE,  capture_progress |-> 0] }

SeqsUpTo(S, n) == UNION { [1..k -> S] : k \in 0..n }

\* ------------------------------------------------------------------ state
VARIABLES
  pc,           \* position of the loop in run()
  handler,      \* "try" inside the try block, "except" inside the handler
  player_info,  \* local player_info of run()
  planet_zone,  \* local planet_zone of run()
  summaries,    \* planet summaries still to be fetched by get_zones()
  zones,        \* list built by get_zones()
  retries,      \* local retries of run()
  reported,     \* 'Reported!' was logged in this cycle
  sleep_d,      \* duration of the running _sleep call
  sleep_left,   \* iterations the running _sleep call still has to do
  sleep_ret,    \* where the running _sleep call returns to
  calls,        \* remote calls and time.sleep calls since the cycle began
  envelope      \* reply to the remote call of the last step ("none": no call)

vars == << pc, handler, player_info, planet_zone, summaries, zones, retries,
           reported, sleep_d, sleep_left, sleep_ret, calls, envelope >>

\* A local variable that holds no value the code can still read.
Unbound == [unbound |-> TRUE]

\* ------------------------------------------------------------ environment
FailReply == [kind |-> "fail"]
EmptyReply == [kind |-> "empty"]
FullReply(b) == [kind |-> "full", body |-> b]

PlainReplies == { FailReply, EmptyReply, FullReply(<< >>) }

PlayerInfoBodies ==
  { [level |-> 1] } \cup { [level |-> 1, active_planet |-> p] : p \in PlanetIds }

PlayerInfoReplies == { FailReply, EmptyReply } \cup { FullReply(b) : b \in PlayerInfoBodies }

\* Lists of active planets the service may return: every planet at most once.
PlanetLists ==
  { s \in SeqsUpTo(PlanetIds, Cardinality(PlanetIds)) :
      \A i, j \in 1..Len(s) : i # j => s[i] # s[j] }

PlanetsReplies ==
  { FailReply, EmptyReply } \cup { FullReply(b) : b \in PlanetLists }

DetailsReplies ==
  { FailReply, EmptyReply } \cup { FullReply(b) : b \in SeqsUpTo(ZoneKinds, MaxZones) }

\* ---------------------------------------------------------- domain model
Ok(v) == [res |-> "ok", val |-> v]
Raise(e) == [res |-> e, val |-> Unbound]

PlayerInfo_from_json(json) ==
  [active_planet |-> IF "active_planet" \in DOMAIN json THEN json.active_planet ELSE NoPlanet]

\* variant: Boss zones score like High zones
get_difficulty_score_flat(zone) ==
  CASE zone.difficulty = 1 -> 120 * 5
    [] zone.difficulty = 2 -> 120 * 10
    [] zone.difficulty = 3 -> 120 * 20
    [] zone.difficulty = 4 -> 120 * 20

get_difficulty_score(zone) ==
  CASE zone.difficulty = 1 -> 120 * 5
    [] zone.difficulty = 2 -> 120 * 10
    [] zone.difficulty = 3 -> 120 * 20
    [] zone.difficulty = 4 -> 120 * 40

\* variant: Boss zones get the multiplier of High zones
DifficultyMultiplierBossAsHigh(d) ==
  CASE d = 1 -> 2 [] d = 2 -> 4 [] d = 3 -> 8 [] d = 4 -> 8

DifficultyMultiplier(d) ==
  CASE d = 1 -> 2 [] d = 2 -> 4 [] d = 3 -> 8 [] d = 4 -> 100

\* variant: the progress cut-offs are strict (`>` instead of `>=`)
weightStrictCutoff(pz) ==
  IF pz.zone.captured THEN 0
  ELSE IF pz.zone.difficulty = 3 /\ pz.zone.capture_progress > 95 THEN 0
  ELSE IF pz.zone.difficulty = 2 /\ pz.zone.capture_progress > 96 THEN 0
  ELSE DifficultyMultiplier(pz.zone.difficulty) * 800 + (100 - pz.zone.capture_progress)

\* weight(), times 100
weight(pz) ==
  IF pz.zone.captured THEN 0
  ELSE IF pz.zone.difficulty = 3 /\ pz.zone.capture_progress >= 95 THEN 0
  ELSE IF pz.zone.difficulty = 2 /\ pz.zone.capture_progress >= 96 THEN 0
  ELSE DifficultyMultiplier(pz.zone.difficulty) * 800 + (100 - pz.zone.capture_progress)

\* variant: an unstable sort that reverses the order of equal weights
SortedPlaceTiesReversed(s, i) ==
  Cardinality({ j \in 1..Len(s) :
                  \/ weight(s[j]) < weight(s[i])
                  \/ weight(s[j]) = weight(s[i]) /\ j > i }) + 1

\* place of zones[i] in the result of sorted(zones, key=weight): the sort is
\* ascending and stable, so equal weights keep their input order
SortedPlace(s, i) ==
  Cardinality({ j \in 1..Len(s) :
                  \/ weight(s[j]) < weight(s[i])
                  \/ weight(s[j]) = weight(s[i]) /\ j < i }) + 1

\* sorted(zones, key=methodcaller('weight'))
sorted(s) ==
  [ k \in 1..Len(s) |-> s[CHOOSE i \in 1..Len(s) : SortedPlace(s, i) = k] ]

\* PlanetDetails.from_json and the inner loop of get_zones(); the service
\* answers GetPlanet with the details of the planet that was asked for
PlanetZoneTuples(planet_id, body) ==
  [ i \in 1..Len(body) |->
      [planet_id |-> planet_id,
       zone |-> [zone_position |-> i,
                 difficulty |-> body[i].difficulty,
                 captured |-> body[i].captured,
                 capture_progress |-> body[i].capture_progress]] ]

\* variant: an empty list yields a placeholder pairing instead of an error
find_best_or_placeholder(zs) ==
  IF zs = << >>
  THEN Ok([planet_id |-> NoPlanet,
           zone |-> [zone_position |-> 0, difficulty |-> 1, captured |-> FALSE,
                     capture_progress |-> 0]])
  ELSE Ok(sorted(zs)[Len(zs)])

\* variant: a best pairing of weight 0 is refused with an error
find_best_nonzero(zs) ==
  IF zs = << >> THEN Raise("Other")
  ELSE IF weight(sorted(zs)[Len(zs)]) = 0 THEN Raise("Other")
  ELSE Ok(sorted(zs)[Len(zs)])

\* the return statement of _find_best_zone_position: the last element of the
\* sorted list, IndexError on an empty list
find_best_zone_position(zs) ==
  IF zs = << >> THEN Raise("Other") ELSE Ok(sorted(zs)[Len(zs)])

\* ---------------------------------------------------------------- gateway
get_player_info(reply) ==
  IF reply.kind = "fail" THEN Raise("Other")
  ELSE IF reply.kind = "full" THEN Ok(PlayerInfo_from_json(reply.body))
  ELSE Raise("NoResponse")

get_planet_summaries(reply) ==
  IF reply.kind = "fail" THEN Raise("Other")
  ELSE IF reply.kind = "full" THEN Ok(reply.body)
  ELSE Raise("NoResponse")

get_planet_details(planet_id, reply) ==
  IF reply.kind = "fail" THEN Raise("Other")
  ELSE IF reply.kind = "full" THEN Ok(PlanetZoneTuples(planet_id, reply.body))
  ELSE Raise("NoResponse")

leave_planet(reply) ==
  IF reply.kind = "fail" THEN Raise("Other") ELSE Ok(Unbound)

join_planet(reply) ==
  IF reply.kind = "fail" THEN Raise("Other") ELSE Ok(Unbound)

\* variant: _join_zone checks the response envelope like _report_score
join_zone_checked(reply) ==
  IF reply.kind = "fail" THEN Raise("Other")
  ELSE IF reply.kind = "full" THEN Ok(Unbound)
  ELSE Raise("NoResponse")

join_zone(reply) ==
  IF reply.kind = "fail" THEN Raise("Other") ELSE Ok(Unbound)

report_score(reply) ==
  IF reply.kind = "fail" THEN Raise("Other")
  ELSE IF reply.kind = "full" THEN Ok(Unbound)
  ELSE Raise("NoResponse")

\* ------------------------------------------------------------ control loop
Call(op, arg, res, ret) == [op |-> op, arg |-> arg, res |-> res, ret |-> ret]

\* Possible values of the expression `a is b` for two int objects built by
\* separate int(...) calls: equal values are the same object only when the
\* interpreter shares them (CPython shares -5..256); outside that range the
\* outcome depends on the interpreter.
IsOutcomes(a, b) ==
  IF a # b THEN { FALSE }
  ELSE IF a >= -5 /\ a <= 256 THEN { TRUE }
  ELSE { TRUE, FALSE }

\* `active_planet = player_info.active_planet`
active_planet == player_info.active_planet

\* variant: the test against -1 is dropped
NeedsLeaveAlways(active) == TRUE

\* `if active_planet is not -1`
NeedsLeave(active) == active # NoPlanet

\* planet id of the end-of-cycle leave call
LeaveTarget(pi, pz) == pi.active_planet

\* variant: off-by-one loop test `retries <= 6`
RetryLoopTestInclusive(r) == r <= MaxRetries

\* loop test `while retries < 6`
RetryLoopTest(r) == r < MaxRetries

\* variant: the `break` after a successful report is missing
ReportNextNoBreak(res) ==
  CASE res = "ok" -> "retry"
    [] res = "NoResponse" -> "retry"
    [] OTHER -> "except"

\* variant: the retry loop catches every exception (`except Exception`)
ReportNextCatchAll(res) ==
  CASE res = "ok" -> "break"
    [] OTHER -> "retry"

\* where run() goes after a _report_score call, by its outcome
ReportNext(res) ==
  CASE res = "ok" -> "break"
    [] res = "NoResponse" -> "retry"
    [] OTHER -> "except"

\* where run() goes after a _join_zone call, by its outcome
JoinZoneNext(res) ==
  CASE res = "ok" -> "continue"
    [] res = "NoResponse" -> "continue"
    [] OTHER -> "except"

\* variant: a failed recovery call is tried again
RecoveryNextRetry(res) == IF res = "ok" THEN "Inspect" ELSE "RecInfo"

\* variant: the inner try/except is missing, a failed recovery call ends run()
RecoveryNextRaise(res) == IF res = "ok" THEN "Inspect" ELSE "Terminated"

\* where run() goes after a call made inside the handler (inner try/except)
RecoveryNext(res) == "Inspect"

\* variant: the handler sleeps with the default repetition count of _sleep
BackoffSleepDefaultTimes == RoundTimes

\* arguments of the _sleep call of the handler
BackoffSleepTimes == BackoffTimes

\* variant: the retry wait takes two units per failed attempt
RetrySleepTwice == RetryTimes + 1

\* repetitions of the _sleep call of the retry loop
RetrySleepTimes == RetryTimes

\* variant: the round wait is one unit short
RoundSleepShort == RoundTimes - 1

\* repetitions of the _sleep() call after joinZone (default of _sleep)
RoundSleepTimes == RoundTimes

\* entering _sleep(duration, times) that returns to ret
EnterSleep(duration, times, ret) ==
  /\ pc' = "Sleeping"
  /\ sleep_d' = duration
  /\ sleep_left' = times
  /\ sleep_ret' = ret

NoSleep == UNCHANGED << sleep_d, sleep_left, sleep_ret >>

\* `except Exception as e:` of the outer try: the locals of the abandoned
\* cycle are not read again before they are reassigned
EnterExcept ==
  /\ handler' = "except"
  /\ player_info' = Unbound
  /\ planet_zone' = Unbound
  /\ summaries' = << >>
  /\ zones' = << >>
  /\ retries' = 0
  /\ EnterSleep(BackoffDuration, BackoffSleepTimes, "RecInfo")

Init ==
  /\ pc = "Inspect"
  /\ handler = "try"
  /\ player_info = Unbound
  /\ planet_zone = Unbound
  /\ summaries = << >>
  /\ zones = << >>
  /\ retries = 0
  /\ reported = FALSE
  /\ sleep_d = 0
  /\ sleep_left = 0
  /\ sleep_ret = "Inspect"
  /\ calls = << >>
  /\ envelope = "none"

\* player_info = self._get_player_info(); a new cycle begins
Inspect ==
  /\ pc = "Inspect"
  /\ \E reply \in PlayerInfoReplies :
       LET r == get_player_info(reply) IN
       /\ envelope' = reply.kind
       /\ calls' = << Call("getPlayerInfo", 0, r.res,
                           IF r.res = "ok" THEN r.val.active_planet ELSE 0) >>
       /\ reported' = FALSE
       /\ IF r.res = "ok"
          THEN /\ player_info' = r.val
               /\ pc' = "GetPlanets"
               /\ handler' = "try"
               /\ NoSleep
               /\ UNCHANGED << planet_zone, summaries, zones, retries >>
          ELSE EnterExcept

\* planet_summaries = self._get_planet_summaries(1)
GetPlanets ==
  /\ pc = "GetPlanets"
  /\ \E reply \in PlanetsReplies :
       LET r == get_planet_summaries(reply) IN
       /\ envelope' = reply.kind
       /\ calls' = Append(calls, Call("getPlanets", 1, r.res,
                                      IF r.res = "ok" THEN Len(r.val) ELSE 0))
       /\ UNCHANGED reported
       /\ IF r.res = "ok"
          THEN /\ summaries' = r.val
               /\ pc' = IF r.val = << >> THEN "Select" ELSE "GetDetails"
               /\ NoSleep
               /\ UNCHANGED << handler, player_info, planet_zone, zones, retries >>
          ELSE EnterExcept

\* planet_details = self._get_planet_details(planet_summary.id) and the
\* inner loop that appends its zones
GetDetails ==
  /\ pc = "GetDetails"
  /\ \E reply \in DetailsReplies :
       LET id == Head(summaries)
           r == get_planet_details(id, reply) IN
       /\ envelope' = reply.kind
       /\ calls' = Append(calls, Call("getPlanetDetails", id, r.res, 0))
       /\ UNCHANGED reported
       /\ IF r.res = "ok"
          THEN /\ zones' = zones \o r.val
               /\ summaries' = Tail(summaries)
               /\ pc' = IF Tail(summaries) = << >> THEN "Select" ELSE "GetDetails"
               /\ NoSleep
               /\ UNCHANGED << handler, player_info, planet_zone, retries >>
          ELSE EnterExcept

\* return sorted(zones, key=methodcaller('weight'))[-1], then the tests of
\* the relocate step
Select ==
  /\ pc = "Select"
  /\ envelope' = "none"
  /\ UNCHANGED << calls, reported >>
  /\ IF find_best_zone_position(zones).res # "ok"
     THEN EnterExcept
     ELSE LET best == find_best_zone_position(zones).val IN
          /\ planet_zone' = best
          /\ zones' = << >>
          /\ \E same \in IsOutcomes(active_planet, best.planet_id) :
               pc' = IF ~same
                     THEN IF NeedsLeave(active_planet) THEN "RelocLeave" ELSE "RelocJoin"
                     ELSE "JoinZone"
          /\ NoSleep
          /\ UNCHANGED << handler, player_info, summaries, retries >>

\* self._leave_planet(player_info.active_planet) of the relocate step
RelocLeave ==
  /\ pc = "RelocLeave"
  /\ \E reply \in PlainReplies :
       LET r == leave_planet(reply) IN
       /\ envelope' = reply.kind
       /\ calls' = Append(calls, Call("leavePlanet", player_info.active_planet, r.res, 0))
       /\ UNCHANGED reported
       /\ IF r.res = "ok"
          THEN /\ pc' = "RelocJoin"
               /\ NoSleep
               /\ UNCHANGED << handler, player_info, planet_zone, summaries, zones, retries >>
          ELSE EnterExcept

\* self._join_planet(planet_zone.planet_details.id)
RelocJoin ==
  /\ pc = "RelocJoin"
  /\ \E reply \in PlainReplies :
       LET r == join_planet(reply) IN
       /\ envelope' = reply.kind
       /\ calls' = Append(calls, Call("joinPlanet", planet_zone.planet_id, r.res, 0))
       /\ UNCHANGED reported
       /\ IF r.res = "ok"
          THEN /\ pc' = "JoinZone"
               /\ NoSleep
               /\ UNCHANGED << handler, player_info, planet_zone, summaries, zones, retries >>
          ELSE EnterExcept

\* self._join_zone(planet_zone.zone.zone_position) inside its try block,
\* then the call of self._sleep()
JoinZone ==
  /\ pc = "JoinZone"
  /\ \E reply \in PlainReplies :
       LET r == join_zone(reply) IN
       /\ envelope' = reply.kind
       /\ calls' = Append(calls, Call("joinZone", planet_zone.zone.zone_position, r.res, 0))
       /\ UNCHANGED reported
       /\ IF JoinZoneNext(r.res) = "continue"
          THEN /\ EnterSleep(RoundDuration, RoundSleepTimes, "Report")
               /\ UNCHANGED << handler, player_info, planet_zone, summaries, zones, retries >>
          ELSE EnterExcept

\* one iteration of the loop of _sleep: time.sleep(duration)
SleepUnit ==
  /\ pc = "Sleeping"
  /\ calls' = Append(calls, Call("sleep", sleep_d, "ok", 0))
  /\ envelope' = "none"
  /\ IF sleep_left > 1
     THEN /\ sleep_left' = sleep_left - 1
          /\ UNCHANGED << pc, sleep_d, sleep_ret, retries >>
     ELSE /\ pc' = sleep_ret
          /\ sleep_left' = 0
          /\ sleep_d' = 0
          /\ sleep_ret' = "Inspect"
          /\ retries' = IF sleep_ret = "Report" THEN 0 ELSE retries
  /\ UNCHANGED << handler, player_info, planet_zone, summaries, zones, reported >>

\* body of the retry loop: self._report_score(...), break or the handler of
\* NoResponseError followed by self._sleep(10, 1)
Report ==
  /\ pc = "Report"
  /\ \E reply \in PlainReplies :
       LET r == report_score(reply)
           next == ReportNext(r.res) IN
       /\ envelope' = reply.kind
       /\ calls' = Append(calls, Call("reportScore", get_difficulty_score(planet_zone.zone), r.res, 0))
       /\ CASE next = "break" ->
                 /\ reported' = TRUE
                 /\ pc' = "Leave"
                 /\ retries' = 0
                 /\ NoSleep
                 /\ UNCHANGED << handler, player_info, planet_zone, summaries, zones >>
            [] next = "retry" ->
                 /\ EnterSleep(RetryDuration, RetrySleepTimes, "Retry")
                 /\ UNCHANGED << handler, player_info, planet_zone, summaries, zones,
                                 retries, reported >>
            [] OTHER ->
                 /\ EnterExcept
                 /\ UNCHANGED reported

\* retries = retries + 1 and the loop test
Retry ==
  /\ pc = "Retry"
  /\ IF RetryLoopTest(retries + 1)
     THEN /\ retries' = retries + 1
          /\ pc' = "Report"
     ELSE /\ retries' = 0
          /\ pc' = "Leave"
  /\ NoSleep
  /\ envelope' = "none"
  /\ UNCHANGED << handler, player_info, planet_zone, summaries, zones, reported, calls >>

\* end of the cycle: self._leave_planet(player_info.active_planet)
Leave ==
  /\ pc = "Leave"
  /\ \E reply \in PlainReplies :
       LET r == leave_planet(reply) IN
       /\ envelope' = reply.kind
       /\ calls' = Append(calls, Call("leavePlanet", LeaveTarget(player_info, planet_zone), r.res, 0))
       /\ UNCHANGED reported
       /\ IF r.res = "ok"
          THEN /\ pc' = "Inspect"
               /\ player_info' = Unbound
               /\ planet_zone' = Unbound
               /\ NoSleep
               /\ UNCHANGED << handler, summaries, zones, retries >>
          ELSE EnterExcept

\* handler: player_info = self._get_player_info() inside the inner try
RecInfo ==
  /\ pc = "RecInfo"
  /\ \E reply \in PlayerInfoReplies :
       LET r == get_player_info(reply) IN
       /\ envelope' = reply.kind
       /\ calls' = Append(calls, Call("getPlayerInfo", 0, r.res,
                                      IF r.res = "ok" THEN r.val.active_planet ELSE 0))
       /\ IF r.res = "ok"
          THEN /\ player_info' = r.val
               /\ pc' = "RecLeave"
          ELSE /\ player_info' = Unbound
               /\ pc' = RecoveryNext(r.res)
  /\ NoSleep
  /\ UNCHANGED << handler, planet_zone, summaries, zones, retries, reported >>

\* handler: self._leave_planet(player_info.active_planet) inside the inner try
RecLeave ==
  /\ pc = "RecLeave"
  /\ \E reply \in PlainReplies :
       LET r == leave_planet(reply) IN
       /\ envelope' = reply.kind
       /\ calls' = Append(calls, Call("leavePlanet", player_info.active_planet, r.res, 0))
       /\ pc' = RecoveryNext(r.res)
  /\ player_info' = Unbound
  /\ NoSleep
  /\ UNCHANGED << handler, planet_zone, summaries, zones, retries, reported >>

Next ==
  \/ Inspect
  \/ GetPlanets
  \/ GetDetails
  \/ Select
  \/ RelocLeave
  \/ RelocJoin
  \/ JoinZone
  \/ SleepUnit
  \/ Report
  \/ Retry
  \/ Leave
  \/ RecInfo
  \/ RecLeave

Spec == Init /\ [][Next]_vars

\* every remote call and every sleep returns, so the loop keeps stepping
FairSpec == Spec /\ WF_vars(Next)

\* ------------------------------------------------- the selector on its own
\* Zone lists handed to the return statement of _find_best_zone_position:
\* the zones of planet 1 followed by the zones of planet 300, as get_zones()
\* appends them.
MaxSelZones == 2

SelZoneKinds ==
  { [difficulty |-> d, captured |-> FALSE, capture_progress |-> 50] : d \in 1..4 }
  \cup { [difficulty |-> 3, captured |-> FALSE, capture_progress |-> 95],
         [difficulty |-> 4, captured |-> TRUE, capture_progress |-> 50] }

\* every zone on the grid of whole percents
GridZones ==
  { [difficulty |-> d, captured |-> c, capture_progress |-> p] :
      d \in 1..4, c \in BOOLEAN, p \in 0..100 }

\* an uncaptured Boss zone next to any other zone, in both orders
BossPairs ==
  UNION { { << b, z >>, << z, b >> } :
            b \in { g \in GridZones : g.difficulty = 4 /\ ~g.captured
                                       /\ g.capture_progress \in {0, 50, 100} },
            z \in { g \in GridZones : g.difficulty # 4 } }

SelInputs ==
  { PlanetZoneTuples(1, b1) \o PlanetZoneTuples(300, b2) :
      b1 \in SeqsUpTo(SelZoneKinds, MaxSelZones), b2 \in SeqsUpTo(SelZoneKinds, MaxSelZones) }
  \cup { PlanetZoneTuples(1, << z >>) : z \in GridZones }
  \cup { PlanetZoneTuples(1, b) : b \in BossPairs }

SelInit ==
  /\ pc = "Selector"
  /\ zones \in SelInputs
  /\ planet_zone = Unbound
  /\ handler = "try"
  /\ player_info = Unbound
  /\ summaries = << >>
  /\ retries = 0
  /\ reported = FALSE
  /\ sleep_d = 0
  /\ sleep_left = 0
  /\ sleep_ret = "Inspect"
  /\ calls = << >>
  /\ envelope = "none"

\* return sorted(zones, key=methodcaller('weight'))[-1]
SelectBest ==
  /\ pc = "Selector"
  /\ LET r == find_best_zone_position(zones) IN
     /\ pc' = IF r.res = "ok" THEN "Selected" ELSE "SelectFailed"
     /\ planet_zone' = r.val
  /\ UNCHANGED << handler, player_info, summaries, zones, retries, reported,
                  sleep_d, sleep_left, sleep_ret, calls, envelope >>

SelNext == SelectBest

SelSpec == SelInit /\ [][SelNext]_vars

\* ------------------------------------------------------------- properties
Min(S) == CHOOSE x \in S : \A y \in S : x <= y
Max(S) == CHOOSE x \in S : \A y \in S : x >= y

Idx(op) == { i \in 1..Len(calls) : calls[i].op = op }

\* time.sleep(60) calls: the backoff of the handler
BackoffIdx == { i \in Idx("sleep") : calls[i].arg = 60 }

\* first entry of the trace that belongs to the handler
RecFrom == IF BackoffIdx = {} THEN Len(calls) + 1 ELSE Min(BackoffIdx)

\* calls made by the try block of the cycle
TryIdx(op) == { i \in Idx(op) : i < RecFrom }

ReportIdx == TryIdx("reportScore")

\* calls made by the handler after its backoff
RecoveryCalls ==
  IF BackoffIdx = {} THEN << >> ELSE SubSeq(calls, Max(BackoffIdx) + 1, Len(calls))

\* the active planet returned by the getPlayerInfo call of Inspect
InspectPlanet == calls[1].ret

\* C1: a cycle makes at most 6 reportScore attempts; when all 6 fail with
\* NoResponseError the handler is not entered, nothing is reported as
\* successful, and the next remote call is the end-of-cycle leavePlanet.
C1_AtMostSixReports ==
  /\ Cardinality(ReportIdx) <= 6
  /\ (Cardinality(ReportIdx) = 6 /\ \A i \in ReportIdx : calls[i].res = "NoResponse") =>
       LET last == Max(ReportIdx)
           later == { j \in (last + 1)..Len(calls) : calls[j].op # "sleep" } IN
       /\ ~reported
       /\ Idx("sleep") \cap ((last + 1)..Len(calls)) # {} => calls[last + 1].arg = 10
       /\ IF later = {}
          THEN /\ handler = "try"
               /\ pc \in {"Sleeping", "Retry", "Leave"}
               /\ pc = "Sleeping" => sleep_ret = "Retry"
          ELSE /\ calls[Min(later)].op = "leavePlanet"
               /\ calls[Min(later)].arg = InspectPlanet
               /\ Min(later) < RecFrom

C1_Witness ==
  /\ Cardinality(ReportIdx) = 6
  /\ \A i \in ReportIdx : calls[i].res = "NoResponse"
  /\ calls[Len(calls)].op = "leavePlanet"
  /\ calls[Len(calls)].res = "ok"
  /\ BackoffIdx = {}
  /\ pc = "Inspect"

\* C2: a successful reportScore attempt (after k-1 NoResponseError failures)
\* is the last attempt of the cycle, the next remote call is the end-of-cycle
\* leavePlanet, and the handler is not entered.
C2_SuccessEndsRetrying ==
  \A i \in ReportIdx : calls[i].res = "ok" =>
    /\ \A j \in ReportIdx : j <= i
    /\ \A j \in ReportIdx : j < i => calls[j].res = "NoResponse"
    /\ reported
    /\ IF i = Len(calls)
       THEN pc = "Leave" /\ handler = "try"
       ELSE /\ calls[i + 1].op = "leavePlanet"
            /\ calls[i + 1].arg = InspectPlanet

C2_Witness ==
  \E i \in ReportIdx :
    /\ calls[i].res = "ok"
    /\ Cardinality({ j \in ReportIdx : j < i /\ calls[j].res = "NoResponse" }) = 3
    /\ i < Len(calls)
    /\ calls[i + 1].op = "leavePlanet"

\* C3: the end-of-cycle leavePlanet call is made for the active planet that
\* getPlayerInfo returned at Inspect, and never for the planet joined during
\* Relocate.
C3_LeaveUsesInspectPlanet ==
  \A i \in TryIdx("leavePlanet") :
    (\E z \in TryIdx("joinZone") : z < i) =>
      /\ calls[i].arg = InspectPlanet
      /\ \A j \in TryIdx("joinPlanet") : calls[j].arg # calls[i].arg

\* C4: when the Inspect-time planet differs from the target planet, Relocate
\* calls leavePlanet(active) and then joinPlanet(target) if the active planet
\* is not -1, and joinPlanet(target) with no leavePlanet before it otherwise.
C4_RelocateOrder ==
  /\ pc = "RelocLeave" =>
       /\ active_planet # -1
       /\ Idx("leavePlanet") = {} /\ Idx("joinPlanet") = {}
  /\ (pc = "RelocJoin" /\ active_planet # planet_zone.planet_id) =>
       /\ Idx("joinPlanet") = {}
       /\ IF active_planet # -1
          THEN calls[Len(calls)] = Call("leavePlanet", active_planet, "ok", 0)
          ELSE Idx("leavePlanet") = {}
  /\ (pc = "JoinZone" /\ active_planet # planet_zone.planet_id) =>
       calls[Len(calls)] = Call("joinPlanet", planet_zone.planet_id, "ok", 0)
  /\ \A i \in Idx("joinPlanet") : calls[i].arg # InspectPlanet =>
       IF InspectPlanet # -1
       THEN /\ calls[i - 1] = Call("leavePlanet", InspectPlanet, "ok", 0)
            /\ Idx("leavePlanet") \cap (1..(i - 1)) = {i - 1}
       ELSE Idx("leavePlanet") \cap (1..i) = {}

C4_Witness ==
  /\ pc = "JoinZone"
  /\ active_planet = 1
  /\ planet_zone.planet_id = 300
  /\ calls[Len(calls) - 1] = Call("leavePlanet", 1, "ok", 0)
  /\ calls[Len(calls)] = Call("joinPlanet", 300, "ok", 0)

\* C5: when the Inspect-time planet id equals the target planet id, whatever
\* the id, neither leavePlanet nor joinPlanet is called between target
\* selection and joinZone.
C5_SamePlanetSkipsRelocate ==
  /\ pc \in {"RelocLeave", "RelocJoin"} => active_planet # planet_zone.planet_id
  /\ \A z \in TryIdx("joinZone") :
       (\E j \in TryIdx("joinPlanet") : j < z) => calls[z - 1].arg # InspectPlanet

\* C7: after its backoff the handler makes one recovery attempt, getPlayerInfo
\* then leavePlanet(active planet of that player info); a failure of either
\* call is swallowed and the loop is back at Inspect, with no second attempt.
C7_OneRecoveryAttempt ==
  LET rec == RecoveryCalls IN
  /\ \A i \in BackoffIdx : \A j \in i..Len(calls) : calls[j].op = "sleep" => j \in BackoffIdx
  /\ Len(rec) <= 2
  /\ Len(rec) >= 1 => rec[1].op = "getPlayerInfo"
  /\ Len(rec) = 2 =>
       /\ rec[1].res = "ok"
       /\ rec[2].op = "leavePlanet"
       /\ rec[2].arg = rec[1].ret
  /\ (BackoffIdx # {} /\ Len(rec) = 0) => pc \in {"Sleeping", "RecInfo"} /\ handler = "except"
  /\ (Len(rec) = 1 /\ rec[1].res = "ok") => pc = "RecLeave" /\ player_info.active_planet = rec[1].ret
  /\ ((Len(rec) = 1 /\ rec[1].res # "ok") \/ Len(rec) = 2) => pc = "Inspect"

C7_Witness ==
  /\ Len(RecoveryCalls) = 2
  /\ RecoveryCalls[2].res = "Other"
  /\ RecoveryCalls[2].arg = 300
  /\ pc = "Inspect"

\* C8 as stated: the recovery getPlayerInfo call is issued after 6 waits of
\* 60 seconds (360 seconds).
C8_BackoffSixTimesSixty ==
  /\ pc = "RecInfo" => Cardinality(BackoffIdx) = 6
  /\ \A i \in Idx("getPlayerInfo") : i > 1 => Cardinality(BackoffIdx) * 60 = 360

\* C8 amended: the recovery getPlayerInfo call is issued after exactly one
\* wait of 60 seconds (60 seconds in total), which directly precedes it.
C8_BackoffOnceSixty ==
  /\ Cardinality(BackoffIdx) <= 1
  /\ pc = "RecInfo" =>
       /\ Cardinality(BackoffIdx) = 1
       /\ calls[Len(calls)] = Call("sleep", 60, "ok", 0)
  /\ \A i \in Idx("getPlayerInfo") : i > 1 =>
       /\ calls[i - 1] = Call("sleep", 60, "ok", 0)
       /\ Cardinality(BackoffIdx) * 60 = 60
  /\ (handler = "except" /\ BackoffIdx = {}) => pc = "Sleeping" /\ sleep_d = 60 /\ sleep_left = 1

C8_Witness ==
  /\ pc = "RecLeave"
  /\ Cardinality(BackoffIdx) = 1
  /\ calls[Len(calls)].op = "getPlayerInfo"
  /\ calls[Len(calls) - 1] = Call("sleep", 60, "ok", 0)

\* C9: under every pattern of failures the loop never stops: a new cycle is
\* started at Inspect (getPlayerInfo) again and again.
C9_AlwaysNewCycle == []<><<Inspect>>_vars

C9_Witness ==
  /\ pc = "Inspect"
  /\ Len(RecoveryCalls) = 1
  /\ RecoveryCalls[1].res = "NoResponse"
  /\ \E i \in TryIdx("reportScore") : calls[i].res = "Other"

\* a call of the try block whose failure is not handled locally
Abandons(c) ==
  \/ c.res = "Other"
  \/ c.res = "NoResponse" /\ c.op \in {"getPlayerInfo", "getPlanets", "getPlanetDetails"}

\* C10: a NoResponseError from getPlayerInfo, getPlanets or getPlanetDetails,
\* and any other failure at any step, is not retried: the cycle makes no
\* further call, and control goes to the handler (its backoff comes next).
C10_OtherErrorsAbandonCycle ==
  \A i \in 1..Len(calls) : (i < RecFrom /\ Abandons(calls[i])) =>
    /\ \A j \in (i + 1)..Len(calls) :
         /\ calls[j].op \notin {"joinZone", "reportScore", "joinPlanet", "getPlanets", "getPlanetDetails"}
         /\ j >= RecFrom
    /\ IF i = Len(calls)
       THEN handler = "except" /\ pc = "Sleeping" /\ sleep_ret = "RecInfo"
       ELSE calls[i + 1] = Call("sleep", 60, "ok", 0)

C10_Witness ==
  /\ Cardinality(ReportIdx) = 2
  /\ calls[Max(ReportIdx)].res = "Other"
  /\ calls[Min(ReportIdx)].res = "NoResponse"
  /\ Len(RecoveryCalls) = 1

\* planet_zone holds the pairing selected in this cycle
ZoneBound ==
  \/ pc \in {"RelocLeave", "RelocJoin", "JoinZone", "Report", "Retry", "Leave"}
  \/ pc = "Sleeping" /\ sleep_ret \in {"Report", "Retry"}

\* the Select step on an empty list, and the steps of the handler
C14_Step ==
  /\ (pc = "Select" /\ zones = << >>) =>
       /\ handler' = "except"
       /\ pc' = "Sleeping" /\ sleep_d' = 60
       /\ calls' = calls
  /\ (handler = "except" /\ pc # "Inspect" /\ calls' # calls) =>
       calls'[Len(calls')].op \in {"sleep", "getPlayerInfo", "leavePlanet"}

\* no call of the cycle's later steps has been made when the list is empty
C14_State ==
  /\ (pc = "Select" /\ zones = << >>) =>
       /\ find_best_zone_position(zones).res # "ok"
       /\ Idx("joinPlanet") = {} /\ Idx("joinZone") = {} /\ Idx("reportScore") = {}
  /\ (Len(calls) >= 2 /\ calls[2] = Call("getPlanets", 1, "ok", 0)) =>
       /\ Idx("getPlanetDetails") = {}
       /\ Idx("joinPlanet") = {} /\ Idx("joinZone") = {} /\ Idx("reportScore") = {}
       /\ pc = "Select" \/ handler = "except"
       /\ Len(calls) >= 3 => calls[3] = Call("sleep", 60, "ok", 0)

\* C14: when the gathered list is empty (no active planet, or no zone on any
\* active planet) the selector fails, the cycle makes no joinPlanet, joinZone
\* or reportScore call, and control goes to the handler.
C14_EmptyListFails == [][C14_Step]_vars /\ []C14_State

C14_Witness ==
  /\ handler = "except"
  /\ Len(calls) = 3
  /\ calls[2] = Call("getPlanets", 1, "ok", 0)
  /\ calls[3] = Call("sleep", 60, "ok", 0)
  /\ pc = "RecInfo"

\* the score table as the claim states it
ClaimedScore(d) ==
  CASE d = 1 -> 600 [] d = 2 -> 1200 [] d = 3 -> 2400 [] d = 4 -> 4800

\* C15: every reportScore attempt of a cycle, retries included, submits the
\* score of the zone selected in that cycle (600, 1200, 2400, 4800 for Low,
\* Medium, High, Boss); no selection happens between the attempts.
C15_FixedScore ==
  LET R == ReportIdx
      G == Idx("getPlanets") \cup Idx("getPlanetDetails") IN
  R # {} =>
    LET first == Min(R) IN
    /\ calls[first].arg \in {600, 1200, 2400, 4800}
    /\ \A i \in R : calls[i].arg = calls[first].arg
    /\ ZoneBound => calls[first].arg = ClaimedScore(planet_zone.zone.difficulty)
    /\ \A g \in G : g < first
    /\ Cardinality(Idx("getPlanets")) = 1

C15_Witness ==
  /\ Cardinality(ReportIdx) = 2
  /\ calls[Min(ReportIdx)] = Call("reportScore", 4800, "NoResponse", 0)
  /\ calls[Max(ReportIdx)] = Call("reportScore", 4800, "ok", 0)
  /\ pc = "Leave"
  /\ planet_zone.zone.difficulty = 4

\* the 10-second waits of the retry loop
RetryWaitIdx == { i \in Idx("sleep") : calls[i].arg = 10 }

\* the retry loop of the cycle is over
ReportsOver ==
  \/ pc = "Leave"
  \/ \E i \in TryIdx("leavePlanet") : \E z \in TryIdx("joinZone") : z < i

\* C16 as stated: the waits lie between the attempts only, so a cycle with n
\* attempts has made n-1 retry waits when its retry loop is over.
C16_WaitsOnlyBetween ==
  ReportsOver => Cardinality(RetryWaitIdx) = Cardinality(ReportIdx) - 1

\* C16 amended: one 10-second wait follows every attempt that fails with
\* NoResponseError, also the 6th; consecutive attempts are separated by
\* exactly one wait, and no wait follows a successful attempt.
C16_WaitAfterEveryFailure ==
  LET R == ReportIdx
      W == RetryWaitIdx
      F == { i \in ReportIdx : calls[i].res = "NoResponse" } IN
  /\ \A i \in F : i < Len(calls) => (i + 1 \in W /\ i + 2 \notin W)
  /\ \A i \in R \ F : i + 1 \notin W
  /\ \A w \in W : w - 1 \in F
  /\ \A i \in R : i # Max(R) => (i + 1 \in W /\ i + 2 \in R)
  /\ ReportsOver => Cardinality(W) = Cardinality(F)
  /\ (ReportsOver /\ R = F) => (Cardinality(W) = 6 /\ Cardinality(R) = 6)

C16_Witness ==
  /\ pc = "Leave"
  /\ Cardinality(ReportIdx) = 6
  /\ Cardinality(RetryWaitIdx) = 6
  /\ calls[Len(calls)] = Call("sleep", 10, "ok", 0)

\* the cycle ended with its leavePlanet call and never entered the handler
CycleCompleted == pc = "Inspect" /\ calls # << >> /\ BackoffIdx = {}

\* C17: a cycle without unhandled error makes, in this order and nothing
\* else: getPlayerInfo once; getPlanets(active only) and one getPlanetDetails
\* per active planet; optionally leavePlanet then joinPlanet; joinZone once;
\* exactly 6 waits of 20 seconds; 1 to 6 reportScore attempts; leavePlanet
\* last. The next getPlayerInfo comes only after that leavePlanet.
C17_CycleOrder ==
  /\ TryIdx("getPlayerInfo") \subseteq {1}
  /\ (pc = "Inspect" /\ calls # << >>) =>
       calls[Len(calls)].op \in {"leavePlanet", "getPlayerInfo"}
  /\ CycleCompleted =>
       LET n == calls[2].ret
           z == Min(Idx("joinZone")) IN
       /\ calls[1].op = "getPlayerInfo" /\ calls[1].res = "ok"
       /\ calls[2] = Call("getPlanets", 1, "ok", n)
       /\ Idx("getPlayerInfo") = {1} /\ Idx("getPlanets") = {2}
       /\ Idx("getPlanetDetails") = 3..(2 + n)
       /\ \A i, j \in 3..(2 + n) : i # j => calls[i].arg # calls[j].arg
       /\ Idx("joinZone") = {z}
       /\ \/ z = 3 + n
          \/ z = 4 + n /\ calls[3 + n].op = "joinPlanet"
          \/ z = 5 + n /\ calls[3 + n].op = "leavePlanet" /\ calls[4 + n].op = "joinPlanet"
       /\ { i \in Idx("sleep") : calls[i].arg = 20 } = (z + 1)..(z + 6)
       /\ Cardinality({ i \in Idx("sleep") : calls[i].arg = 20 }) * 20 = 120
       /\ calls[z + 7].op = "reportScore"
       /\ \A i \in (z + 7)..(Len(calls) - 1) : i \in ReportIdx \cup RetryWaitIdx
       /\ Cardinality(ReportIdx) \in 1..6
       /\ calls[Len(calls)].op = "leavePlanet"
       /\ \A i \in 1..Len(calls) : calls[i].res = "ok" \/ i \in ReportIdx

C17_Witness ==
  /\ CycleCompleted
  /\ calls[2].ret = 2
  /\ calls[5].op = "leavePlanet"
  /\ calls[6].op = "joinPlanet"
  /\ calls[7].op = "joinZone"
  /\ Cardinality(ReportIdx) = 3

\* C18: a planet joined by joinPlanet during Relocate is never the argument
\* of a later leavePlanet call of the same cycle's try block.
C18_JoinedPlanetNeverLeft ==
  \A j \in TryIdx("joinPlanet") : \A i \in TryIdx("leavePlanet") :
    i > j => calls[i].arg # calls[j].arg

\* the Select step on a non-empty list
C19_SelectStep ==
  (pc = "Select" /\ zones # << >>) =>
    IF \A i \in 1..Len(zones) : weight(zones[i]) = 0
    THEN /\ planet_zone' = zones[Len(zones)]
         /\ pc' \in {"RelocLeave", "RelocJoin", "JoinZone"}
         /\ handler' = handler
    ELSE /\ weight(planet_zone') > 0
         /\ ~planet_zone'.zone.captured
         /\ ~(planet_zone'.zone.difficulty = 3 /\ planet_zone'.zone.capture_progress >= 95)
         /\ ~(planet_zone'.zone.difficulty = 2 /\ planet_zone'.zone.capture_progress >= 96)

\* a cycle whose selected pairing has weight 0 goes on like any other
C19_ZeroWeightCycle ==
  (ZoneBound /\ weight(planet_zone) = 0) =>
    /\ handler = "try"
    /\ \A z \in Idx("joinZone") : calls[z].arg = planet_zone.zone.zone_position
    /\ \A i \in ReportIdx :
         /\ calls[i].arg = ClaimedScore(planet_zone.zone.difficulty)
         /\ \E z \in Idx("joinZone") :
              /\ z + 6 < i
              /\ \A k \in (z + 1)..(z + 6) : calls[k] = Call("sleep", 20, "ok", 0)
    /\ pc \in {"Report", "Retry", "Leave"} => Idx("joinZone") # {}

\* C19: when every pairing of a non-empty list has weight 0 the selector
\* returns the last pairing in input order and the cycle joins that zone,
\* awaits the round and reports that zone's score; when some pairing has a
\* non-zero weight the returned zone is neither captured nor a weight-0
\* Medium/High zone.
C19_ZeroWeightSelection == [][C19_SelectStep]_vars /\ []C19_ZeroWeightCycle

C19_Witness ==
  /\ pc = "Leave"
  /\ weight(planet_zone) = 0
  /\ planet_zone.zone.difficulty = 3
  /\ planet_zone.zone.zone_position = 2
  /\ calls[Len(calls)] = Call("reportScore", 2400, "ok", 0)

\* C20: joinZone never raises NoResponseError: a reply with an empty envelope
\* is treated exactly like a successful join; getPlanets, getPlanetDetails,
\* getPlayerInfo and reportScore raise NoResponseError on an empty envelope;
\* joinPlanet and leavePlanet never do.
C20_EnvelopeChecks ==
  /\ \A i \in 1..Len(calls) :
       calls[i].op \in {"joinZone", "joinPlanet", "leavePlanet"} => calls[i].res # "NoResponse"
  /\ envelope # "none" =>
       LET c == calls[Len(calls)] IN
       /\ (c.op \in {"joinZone", "joinPlanet", "leavePlanet"} /\ envelope \in {"empty", "full"})
            => c.res = "ok"
       /\ (c.op \in {"getPlanets", "getPlanetDetails", "getPlayerInfo", "reportScore"})
            => (c.res = "NoResponse" <=> envelope = "empty")
       /\ (c.op = "joinZone" /\ envelope \in {"empty", "full"}) =>
            /\ pc = "Sleeping" /\ sleep_d = 20 /\ sleep_left = 6 /\ sleep_ret = "Report"
            /\ handler = "try"
            /\ ZoneBound

C20_Witness ==
  /\ envelope = "empty"
  /\ calls[Len(calls)].op = "joinZone"
  /\ calls[Len(calls)].res = "ok"
  /\ pc = "Sleeping"
  /\ sleep_ret = "Report"

\* ------------------------------------------------- selector properties
WeightsOf(zs) == { weight(zs[i]) : i \in 1..Len(zs) }

\* C11: for a non-empty list the selector returns a pairing of the list with
\* the maximum weight, and among several pairings of maximum weight the one
\* that is last in input order (planet order, then zone order).
C11_LastMaximumWins ==
  (pc = "Selected") =>
    /\ zones # << >>
    /\ \E i \in 1..Len(zones) : zones[i] = planet_zone
    /\ \A i \in 1..Len(zones) : weight(zones[i]) <= weight(planet_zone)
    /\ planet_zone = zones[Max({ i \in 1..Len(zones) : weight(zones[i]) = Max(WeightsOf(zones)) })]
    /\ \A i, j \in 1..Len(zones) : i < j =>
         \/ zones[i].planet_id = 1 /\ zones[j].planet_id = 300
         \/ /\ zones[i].planet_id = zones[j].planet_id
            /\ zones[i].zone.zone_position < zones[j].zone.zone_position

C11_Witness ==
  /\ pc = "Selected"
  /\ Len(zones) = 4
  /\ \A i \in 1..4 : weight(zones[i]) = 80050
  /\ planet_zone.planet_id = 300
  /\ planet_zone.zone.zone_position = 2

\* the multiplier table and the weight formula as the claim states them
ClaimedWeight(z) ==
  LET m == CASE z.difficulty = 1 -> 2 [] z.difficulty = 2 -> 4
             [] z.difficulty = 3 -> 8 [] z.difficulty = 4 -> 100 IN
  IF z.captured THEN 0
  ELSE IF z.difficulty = 3 /\ z.capture_progress >= 95 THEN 0
  ELSE IF z.difficulty = 2 /\ z.capture_progress >= 96 THEN 0
  ELSE (m * 8) * 100 + (100 - z.capture_progress)

\* C12: the weight (times 100, progress in percents) is 0 for a captured
\* zone, for a High zone at 95% or more and for a Medium zone at 96% or more,
\* and m*8 + (1 - progress) otherwise; an uncaptured High zone below 95% has
\* weight 64 + (1 - progress) > 0; Low and Boss zones have no cut-off.
C12_WeightTable ==
  \A i \in 1..Len(zones) :
    LET z == zones[i].zone IN
    /\ weight(zones[i]) = ClaimedWeight(z)
    /\ (z.difficulty = 3 /\ ~z.captured /\ z.capture_progress < 95) =>
         /\ weight(zones[i]) = 6400 + (100 - z.capture_progress)
         /\ weight(zones[i]) > 0
    /\ (z.difficulty \in {1, 4} /\ ~z.captured) => weight(zones[i]) > 0

C12_Witness ==
  /\ pc = "Selected"
  /\ Len(zones) = 1
  /\ zones[1].zone = [zone_position |-> 1, difficulty |-> 3, captured |-> FALSE,
                      capture_progress |-> 94]
  /\ weight(planet_zone) = 6406

\* C13: an uncaptured Boss zone outweighs every Low, Medium or High zone at
\* any progress, so the selector returns a Boss zone whenever the list holds
\* an uncaptured Boss zone.
C13_BossOutranks ==
  /\ \A i, j \in 1..Len(zones) :
       (zones[i].zone.difficulty = 4 /\ ~zones[i].zone.captured /\ zones[j].zone.difficulty # 4)
         => weight(zones[i]) > weight(zones[j])
  /\ (pc = "Selected" /\ \E i \in 1..Len(zones) :
                           zones[i].zone.difficulty = 4 /\ ~zones[i].zone.captured)
       => planet_zone.zone.difficulty = 4 /\ ~planet_zone.zone.captured

C13_Witness ==
  /\ pc = "Selected"
  /\ Len(zones) = 2
  /\ zones[1].zone.difficulty = 4 /\ zones[1].zone.capture_progress = 100
  /\ ~zones[1].zone.captured
  /\ zones[2].zone.difficulty = 3 /\ zones[2].zone.capture_progress = 0
  /\ ~zones[2].zone.captured
  /\ planet_zone = zones[1]

====
